---- MODULE Spec2Model ----
(***************************************************************************)
(* Model of DB::Lexer (dbms/src/Parsers/Lexer.cpp): the pull tokenizer of  *)
(* the SQL dialect.  The buffer is a sequence of byte values, positions    *)
(* are 0-based offsets from `begin` (begin = 0, end = Len(buf)), and the   *)
(* single operation nextToken() is one action.                             *)
(***************************************************************************)
EXTENDS Integers, Sequences, FiniteSets, TLC

VARIABLES buf, pos, from, tok, prev

vars == <<buf, pos, from, tok, prev>>

(***************************************************************************)
(* Bound of the model: the longest buffer that is tokenized.               *)
(***************************************************************************)
MaxLen == 3

(***************************************************************************)
(* Byte values of the character literals of Lexer.cpp.                     *)
(***************************************************************************)
CH_NL == 10
CH_SPACE == 32
CH_EXCL == 33
CH_DQUOTE == 34
CH_HASH == 35
CH_QUOTE == 39
CH_RPAREN == 41
CH_STAR == 42
CH_PLUS == 43
CH_MINUS == 45
CH_DOT == 46
CH_SLASH == 47
CH_0 == 48
CH_1 == 49
CH_LT == 60
CH_EQ == 61
CH_GT == 62
CH_BACKSLASH == 92
CH_UNDERSCORE == 95
CH_BACKQUOTE == 96
CH_a == 97
CH_e == 101
CH_x == 120
CH_PIPE == 124

(***************************************************************************)
(* The bytes the buffers are drawn from: at least one byte of every class  *)
(* the dispatch of nextToken() and its sub-automata tell apart.  CH_HASH   *)
(* and CH_BACKSLASH stand for the bytes with no case label.                *)
(***************************************************************************)
Bytes ==
    { CH_NL, CH_SPACE, CH_EXCL, CH_DQUOTE, CH_HASH, CH_QUOTE, CH_RPAREN,
      CH_STAR, CH_PLUS, CH_MINUS, CH_DOT, CH_SLASH, CH_0, CH_1, CH_LT, CH_EQ,
      CH_GT, CH_BACKSLASH, CH_UNDERSCORE, CH_BACKQUOTE, CH_a, CH_e, CH_x,
      CH_PIPE }

Buffers == UNION { [1..n -> Bytes] : n \in 0..MaxLen }

(***************************************************************************)
(* Buffer access.  *p with p an offset from begin; `end` is Len(buf).      *)
(***************************************************************************)
At(b, p) == b[p + 1]

End(b) == Len(b)

Begin == 0

(***************************************************************************)
(* Common/StringUtils.h character classes.                                 *)
(***************************************************************************)
isNumericASCII(c) == c >= 48 /\ c <= 57

isAlphaASCII(c) == (c >= 97 /\ c <= 122) \/ (c >= 65 /\ c <= 90)

isAlphaNumericASCII(c) == isAlphaASCII(c) \/ isNumericASCII(c)

isWordCharASCII(c) == isAlphaNumericASCII(c) \/ c = 95

isWhitespaceASCII(c) == c \in {32, 9, 10, 13, 12, 11}

(***************************************************************************)
(* Token (Parsers/Lexer.h): type and the byte range [begin, end).          *)
(* Token(type, begin, end) takes two positions, TokenSized(type, begin,    *)
(* size) a position and a length.                                          *)
(***************************************************************************)
Token(type, b, e) == [type |-> type, begin |-> b, end |-> e]

TokenSized(type, b, size) == [type |-> type, begin |-> b, end |-> b + size]

NoToken == [type |-> "None", begin |-> 0, end |-> 0]

(* The result of one call: the token returned and the cursor left behind. *)
Ret(t, p) == [tok |-> t, pos |-> p]

(***************************************************************************)
(* find_first_symbols<symbols...>(begin, end): the first position in       *)
(* [p, end) holding one of the symbols, or end.                            *)
(***************************************************************************)
RECURSIVE find_first_symbols(_, _, _)
find_first_symbols(syms, b, p) ==
    IF p >= End(b) THEN End(b)
    ELSE IF At(b, p) \in syms THEN p
    ELSE find_first_symbols(syms, b, p + 1)

(* Mutant of quotedStringLoop: the doubled quote is not taken as an escape, *)
(* the first quote byte closes the span.                                   *)
RECURSIVE M_quotedStringLoop_noDoubling(_, _, _, _, _, _)
M_quotedStringLoop_noDoubling(b, token_begin, p, quote, success_token, error_token) ==
    LET f == find_first_symbols({quote, CH_BACKSLASH}, b, p) IN
    IF f >= End(b)
    THEN Ret(Token(error_token, token_begin, End(b)), f)
    ELSE IF At(b, f) = quote
    THEN Ret(Token(success_token, token_begin, f + 1), f + 1)
    ELSE IF f + 1 >= End(b)
         THEN Ret(Token(error_token, token_begin, End(b)), f + 1)
         ELSE M_quotedStringLoop_noDoubling(b, token_begin, f + 2, quote,
                                            success_token, error_token)

(* Mutant of quotedStringLoop: only the quote is searched for, a backslash *)
(* escapes nothing.                                                        *)
RECURSIVE M_quotedStringLoop_noBackslash(_, _, _, _, _, _)
M_quotedStringLoop_noBackslash(b, token_begin, p, quote, success_token, error_token) ==
    LET f == find_first_symbols({quote}, b, p) IN
    IF f >= End(b)
    THEN Ret(Token(error_token, token_begin, End(b)), f)
    ELSE IF f + 1 < End(b) /\ At(b, f + 1) = quote
         THEN M_quotedStringLoop_noBackslash(b, token_begin, f + 2, quote,
                                             success_token, error_token)
         ELSE Ret(Token(success_token, token_begin, f + 1), f + 1)

(***************************************************************************)
(* quotedString<quote, success_token, error_token>(pos, token_begin, end). *)
(* quotedStringLoop is the while (true) loop entered with the cursor at p. *)
(***************************************************************************)
RECURSIVE quotedStringLoop(_, _, _, _, _, _)
quotedStringLoop(b, token_begin, p, quote, success_token, error_token) ==
    LET f == find_first_symbols({quote, CH_BACKSLASH}, b, p) IN
    IF f >= End(b)
    THEN Ret(Token(error_token, token_begin, End(b)), f)
    ELSE IF At(b, f) = quote
    THEN IF f + 1 < End(b) /\ At(b, f + 1) = quote
         THEN quotedStringLoop(b, token_begin, f + 2, quote, success_token, error_token)
         ELSE Ret(Token(success_token, token_begin, f + 1), f + 1)
    ELSE IF f + 1 >= End(b)
         THEN Ret(Token(error_token, token_begin, End(b)), f + 1)
         ELSE quotedStringLoop(b, token_begin, f + 2, quote, success_token, error_token)

quotedString(b, p, quote, success_token, error_token) ==
    quotedStringLoop(b, p, p + 1, quote, success_token, error_token)

(***************************************************************************)
(* The while loops of nextToken() that skip a run of one character class.  *)
(***************************************************************************)
RECURSIVE skipWhitespace(_, _)
skipWhitespace(b, p) ==
    IF p < End(b) /\ isWhitespaceASCII(At(b, p)) THEN skipWhitespace(b, p + 1) ELSE p

RECURSIVE skipWordChars(_, _)
skipWordChars(b, p) ==
    IF p < End(b) /\ isWordCharASCII(At(b, p)) THEN skipWordChars(b, p + 1) ELSE p

RECURSIVE skipNumeric(_, _)
skipNumeric(b, p) ==
    IF p < End(b) /\ isNumericASCII(At(b, p)) THEN skipNumeric(b, p + 1) ELSE p

(* Mutant of commentUntilEndOfLine: the newline is searched from the       *)
(* buffer begin instead of from the cursor.                                *)
M_commentUntilEndOfLine_fromBegin(b, token_begin, p) ==
    LET q == find_first_symbols({CH_NL}, b, Begin) IN
    Ret(Token("Comment", token_begin, q), q)

(* Mutant of commentUntilEndOfLine: the newline that ends the comment is   *)
(* consumed with it.                                                       *)
M_commentUntilEndOfLine_eatsNewline(b, token_begin, p) ==
    LET f == find_first_symbols({CH_NL}, b, p)
        q == IF f < End(b) THEN f + 1 ELSE f
    IN  Ret(Token("Comment", token_begin, q), q)

(***************************************************************************)
(* commentUntilEndOfLine: the lambda of nextToken(), called with the       *)
(* cursor p just past the `--` or `//`.                                    *)
(***************************************************************************)
commentUntilEndOfLine(b, token_begin, p) ==
    LET q == find_first_symbols({CH_NL}, b, p) IN
    Ret(Token("Comment", token_begin, q), q)

(* Mutant of caseWhitespace: the loop over the following whitespace is     *)
(* missing.                                                                *)
M_caseWhitespace_oneByte(b, p) == Ret(Token("Whitespace", p, p + 1), p + 1)

(* case ' ', '\t', '\n', '\r', '\f', '\v' *)
caseWhitespace(b, p) ==
    LET q == skipWhitespace(b, p + 1) IN
    Ret(Token("Whitespace", p, q), q)

(* case 'a'...'z', 'A'...'Z', '_' *)
caseWord(b, p) ==
    IF p > Begin /\ isWordCharASCII(At(b, p - 1))
    THEN Ret(TokenSized("ErrorWordWithoutWhitespace", p, 1), p)
    ELSE LET q == skipWordChars(b, p + 1) IN
         Ret(Token("BareWord", p, q), q)

(* The "exponentation" block shared by the digit and the dot cases; guard  *)
(* is the condition of its if, evaluated by the caller.                    *)
exponent(b, p, guard) ==
    IF guard /\ At(b, p) \in {CH_e, 112}
    THEN LET s == p + 1
             t == IF s < End(b) - 1 /\ At(b, s) \in {CH_MINUS, CH_PLUS}
                  THEN s + 1 ELSE s
         IN  skipNumeric(b, t)
    ELSE p

(* case '0'...'9' *)
caseNumber(b, p) ==
    LET p1 == IF p < End(b) - 2 /\ At(b, p) = CH_0 /\ At(b, p + 1) \in {CH_x, 98}
              THEN p + 2 ELSE p
        p2 == skipNumeric(b, p1)
        p3 == IF p2 < End(b) /\ At(b, p2) = CH_DOT
              THEN skipNumeric(b, p2 + 1) ELSE p2
        p4 == exponent(b, p3, p3 + 1 < End(b))
    IN  Ret(Token("Number", p, p4), p4)

(* Mutant of caseDot: the number branch does not consume the dot. *)
M_caseDot_noAdvance(b, p) ==
    IF p > Begin /\ ( At(b, p - 1) = CH_RPAREN \/ At(b, p - 1) = 93
                      \/ isAlphaNumericASCII(At(b, p - 1)) )
    THEN Ret(Token("Dot", p, p + 1), p + 1)
    ELSE LET p1 == skipNumeric(b, p)
             p2 == exponent(b, p1, p1 < End(b) - 1)
         IN  Ret(Token("Number", p, p2), p2)

(* Mutant of caseDot: the byte before the dot is tested with               *)
(* isWordCharASCII, so that an underscore makes it a Dot too.              *)
M_caseDot_wordChar(b, p) ==
    IF p > Begin /\ ( At(b, p - 1) = CH_RPAREN \/ At(b, p - 1) = 93
                      \/ isWordCharASCII(At(b, p - 1)) )
    THEN Ret(Token("Dot", p, p + 1), p + 1)
    ELSE LET p1 == skipNumeric(b, p + 1)
             p2 == exponent(b, p1, p1 < End(b) - 1)
         IN  Ret(Token("Number", p, p2), p2)

(* case '.' *)
caseDot(b, p) ==
    IF p > Begin /\ ( At(b, p - 1) = CH_RPAREN \/ At(b, p - 1) = 93
                      \/ isAlphaNumericASCII(At(b, p - 1)) )
    THEN Ret(Token("Dot", p, p + 1), p + 1)
    ELSE LET p1 == skipNumeric(b, p + 1)
             p2 == exponent(b, p1, p1 < End(b) - 1)
         IN  Ret(Token("Number", p, p2), p2)

(* case '-' *)
caseMinus(b, p) ==
    LET q == p + 1 IN
    IF q < End(b) /\ At(b, q) = CH_GT
    THEN Ret(Token("Arrow", p, q + 1), q + 1)
    ELSE IF q < End(b) /\ At(b, q) = CH_MINUS
    THEN commentUntilEndOfLine(b, p, q + 1)
    ELSE Ret(Token("Minus", p, q), q)

(***************************************************************************)
(* The while (pos <= end - 2) loop of the block comment, entered with the  *)
(* cursor p just past the opening.                                         *)
(***************************************************************************)
RECURSIVE multilineComment(_, _, _)
multilineComment(b, token_begin, p) ==
    IF p <= End(b) - 2
    THEN IF At(b, p) = CH_STAR /\ At(b, p + 1) = CH_SLASH
         THEN Ret(Token("Comment", token_begin, p + 2), p + 2)
         ELSE multilineComment(b, token_begin, p + 1)
    ELSE Ret(Token("ErrorMultilineCommentIsNotClosed", token_begin, End(b)), p)

(* Mutant of caseSlash: the search for the closer starts on the star of    *)
(* the opener (the ++pos before the loop is missing).                      *)
M_caseSlash_reusesStar(b, p) ==
    LET q == p + 1 IN
    IF q < End(b) /\ (At(b, q) = CH_SLASH \/ At(b, q) = CH_STAR)
    THEN IF At(b, q) = CH_SLASH
         THEN commentUntilEndOfLine(b, p, q + 1)
         ELSE multilineComment(b, p, q)
    ELSE Ret(Token("Division", p, q), q)

(* case '/' *)
caseSlash(b, p) ==
    LET q == p + 1 IN
    IF q < End(b) /\ (At(b, q) = CH_SLASH \/ At(b, q) = CH_STAR)
    THEN IF At(b, q) = CH_SLASH
         THEN commentUntilEndOfLine(b, p, q + 1)
         ELSE multilineComment(b, p, q + 1)
    ELSE Ret(Token("Division", p, q), q)

(* case '=' *)
caseEquals(b, p) ==
    LET q == p + 1
        r == IF q < End(b) /\ At(b, q) = CH_EQ THEN q + 1 ELSE q
    IN  Ret(Token("Equals", p, r), r)

(* case '!' *)
caseExclamation(b, p) ==
    LET q == p + 1 IN
    IF q < End(b) /\ At(b, q) = CH_EQ
    THEN Ret(Token("NotEquals", p, q + 1), q + 1)
    ELSE Ret(Token("ErrorSingleExclamationMark", p, q), q)

(* Mutant of caseLess: the test for `<>` is missing. *)
M_caseLess_noNotEquals(b, p) ==
    LET q == p + 1 IN
    IF q < End(b) /\ At(b, q) = CH_EQ
    THEN Ret(Token("LessOrEquals", p, q + 1), q + 1)
    ELSE Ret(Token("Less", p, q), q)

(* case '<' *)
caseLess(b, p) ==
    LET q == p + 1 IN
    IF q < End(b) /\ At(b, q) = CH_EQ
    THEN Ret(Token("LessOrEquals", p, q + 1), q + 1)
    ELSE IF q < End(b) /\ At(b, q) = CH_GT
    THEN Ret(Token("NotEquals", p, q + 1), q + 1)
    ELSE Ret(Token("Less", p, q), q)

(* case '>' *)
caseGreater(b, p) ==
    LET q == p + 1 IN
    IF q < End(b) /\ At(b, q) = CH_EQ
    THEN Ret(Token("GreaterOrEquals", p, q + 1), q + 1)
    ELSE Ret(Token("Greater", p, q), q)

(* Mutant of casePipe: the lone pipe is reported by position and size and  *)
(* the cursor is left on it.                                               *)
M_casePipe_noAdvance(b, p) ==
    LET q == p + 1 IN
    IF q < End(b) /\ At(b, q) = CH_PIPE
    THEN Ret(Token("Concatenation", p, q + 1), q + 1)
    ELSE Ret(TokenSized("ErrorSinglePipeMark", p, 1), p)

(* case '|' *)
casePipe(b, p) ==
    LET q == p + 1 IN
    IF q < End(b) /\ At(b, q) = CH_PIPE
    THEN Ret(Token("Concatenation", p, q + 1), q + 1)
    ELSE Ret(Token("ErrorSinglePipeMark", p, q), q)

(* The cases that return Token(type, token_begin, ++pos). *)
caseSingle(type, p) == Ret(Token(type, p, p + 1), p + 1)

(* default: *)
caseDefault(b, p) == Ret(Token("Error", p, p + 1), p + 1)

(* Mutant of caseEndOfStream: the return pre-increments the cursor like    *)
(* the single-byte cases do.                                               *)
M_caseEndOfStream_advances(b, p) == Ret(TokenSized("EndOfStream", End(b), 0), p + 1)

(* Mutant of caseEndOfStream: the token is given the size 1, as the        *)
(* other position-and-size return of nextToken() is.                       *)
M_caseEndOfStream_sizeOne(b, p) == Ret(TokenSized("EndOfStream", End(b), 1), p)

(* if (pos >= end) return Token(TokenType::EndOfStream, end, 0); *)
caseEndOfStream(b, p) == Ret(TokenSized("EndOfStream", End(b), 0), p)

(***************************************************************************)
(* Lexer::nextToken() as a function of the buffer and the cursor.          *)
(***************************************************************************)
nextToken(b, p) ==
    IF p >= End(b) THEN caseEndOfStream(b, p)
    ELSE LET c == At(b, p) IN
    CASE isWhitespaceASCII(c) -> caseWhitespace(b, p)
      [] isAlphaASCII(c) \/ c = CH_UNDERSCORE -> caseWord(b, p)
      [] isNumericASCII(c) -> caseNumber(b, p)
      [] c = CH_QUOTE ->
            quotedString(b, p, CH_QUOTE, "StringLiteral", "ErrorSingleQuoteIsNotClosed")
      [] c = CH_DQUOTE ->
            quotedString(b, p, CH_DQUOTE, "QuotedIdentifier", "ErrorDoubleQuoteIsNotClosed")
      [] c = CH_BACKQUOTE ->
            quotedString(b, p, CH_BACKQUOTE, "QuotedIdentifier", "ErrorBackQuoteIsNotClosed")
      [] c = 40 -> caseSingle("OpeningRoundBracket", p)
      [] c = CH_RPAREN -> caseSingle("ClosingRoundBracket", p)
      [] c = 91 -> caseSingle("OpeningSquareBracket", p)
      [] c = 93 -> caseSingle("ClosingSquareBracket", p)
      [] c = 44 -> caseSingle("Comma", p)
      [] c = 59 -> caseSingle("Semicolon", p)
      [] c = CH_DOT -> caseDot(b, p)
      [] c = CH_PLUS -> caseSingle("Plus", p)
      [] c = CH_MINUS -> caseMinus(b, p)
      [] c = CH_STAR -> caseSingle("Asterisk", p)
      [] c = CH_SLASH -> caseSlash(b, p)
      [] c = 37 -> caseSingle("Modulo", p)
      [] c = CH_EQ -> caseEquals(b, p)
      [] c = CH_EXCL -> caseExclamation(b, p)
      [] c = CH_LT -> caseLess(b, p)
      [] c = CH_GT -> caseGreater(b, p)
      [] c = 63 -> caseSingle("QuestionMark", p)
      [] c = 58 -> caseSingle("Colon", p)
      [] c = CH_PIPE -> casePipe(b, p)
      [] OTHER -> caseDefault(b, p)

(***************************************************************************)
(* State.  buf is the buffer given to the constructor, pos the cursor.     *)
(* from is the cursor at entry of the last call, tok its result, prev the  *)
(* result of the call before (NoToken while there was none).               *)
(***************************************************************************)
Init ==
    /\ buf \in Buffers
    /\ pos = Begin
    /\ from = Begin
    /\ tok = NoToken
    /\ prev = NoToken

NextToken ==
    LET r == nextToken(buf, pos) IN
    /\ pos' = r.pos
    /\ from' = pos
    /\ tok' = r.tok
    /\ prev' = tok
    /\ UNCHANGED buf

Next == NextToken

Spec == Init /\ [][Next]_vars

(* The caller keeps pulling tokens: the scanner has no suspension points. *)
FairSpec == Spec /\ WF_vars(NextToken)

TypeOK ==
    /\ buf \in Buffers
    /\ pos \in Int
    /\ from \in Int
    /\ tok.begin \in Int /\ tok.end \in Int
    /\ prev.begin \in Int /\ prev.end \in Int

(***************************************************************************)
(* Vocabulary of the properties.                                           *)
(***************************************************************************)
(* At least one call has returned: from, tok and pos describe that call. *)
Called == tok # NoToken

(* The last call as a whole: it started at p, returned t and left the cursor at q. *)
Returned(t, q) == tok = t /\ pos = q

QuoteBytes == {CH_QUOTE, CH_DQUOTE, CH_BACKQUOTE}

QuoteError(q) ==
    CASE q = CH_QUOTE -> "ErrorSingleQuoteIsNotClosed"
      [] q = CH_DQUOTE -> "ErrorDoubleQuoteIsNotClosed"
      [] q = CH_BACKQUOTE -> "ErrorBackQuoteIsNotClosed"

QuoteErrors == { QuoteError(q) : q \in QuoteBytes }

(* The bytes that have a case label in the switch of nextToken(). *)
DispatchBytes ==
    {32, 9, 10, 13, 12, 11} \cup (97..122) \cup (65..90) \cup {95} \cup (48..57)
    \cup {39, 34, 96, 40, 41, 91, 93, 44, 59, 46, 43, 45, 42, 47, 37, 61, 33,
          60, 62, 63, 58, 124}

(***************************************************************************)
(* C1 (Progress): every call to nextToken either leaves the cursor         *)
(* strictly greater than it was before the call or returns EndOfStream.    *)
(***************************************************************************)
C1_Progress == Called => (pos > from \/ tok.type = "EndOfStream")

(***************************************************************************)
(* C2 (Totality): for every buffer, repeatedly calling nextToken from      *)
(* cursor = begin eventually returns EndOfStream.                          *)
(***************************************************************************)
C2_Totality == <>(tok.type = "EndOfStream")

(***************************************************************************)
(* C3 (Coverage): the first token begins at the buffer begin, every        *)
(* following token begins exactly where the previous one ended, and the    *)
(* final EndOfStream is the empty range at the buffer end.                 *)
(***************************************************************************)
C3_Coverage ==
    Called =>
        /\ tok.begin = (IF prev = NoToken THEN Begin ELSE prev.end)
        /\ tok.type = "EndOfStream" => (tok.begin = End(buf) /\ tok.end = End(buf))

(***************************************************************************)
(* C4 (Unterminated block comment): a call that starts at slash-star with  *)
(* no star-slash after the opener returns ErrorMultilineCommentIsNotClosed *)
(* with range [token_begin, end), and the very next call returns           *)
(* EndOfStream.                                                            *)
(***************************************************************************)
OpensBlockComment(b, p) ==
    p + 1 < End(b) /\ At(b, p) = CH_SLASH /\ At(b, p + 1) = CH_STAR

BlockCommentCloserAfter(b, p) ==
    \E i \in (p + 2)..(End(b) - 2) : At(b, i) = CH_STAR /\ At(b, i + 1) = CH_SLASH

C4_UnterminatedBlockComment ==
    /\ (Called /\ OpensBlockComment(buf, from) /\ ~BlockCommentCloserAfter(buf, from))
          => tok = Token("ErrorMultilineCommentIsNotClosed", from, End(buf))
    /\ prev.type = "ErrorMultilineCommentIsNotClosed" => tok.type = "EndOfStream"

(***************************************************************************)
(* C5 (Adjacency rule): a call with the cursor on a letter or underscore   *)
(* whose preceding byte exists and is a word character returns             *)
(* ErrorWordWithoutWhitespace covering exactly that byte and advances the  *)
(* cursor by exactly one byte.                                             *)
(***************************************************************************)
AbutsWord(b, p) ==
    /\ p < End(b)
    /\ (isAlphaASCII(At(b, p)) \/ At(b, p) = CH_UNDERSCORE)
    /\ p > Begin
    /\ isWordCharASCII(At(b, p - 1))

C5_AdjacencyRule ==
    (Called /\ AbutsWord(buf, from))
        => Returned(Token("ErrorWordWithoutWhitespace", from, from + 1), from + 1)

(***************************************************************************)
(* C6 (Idempotent termination): once a call has returned EndOfStream,      *)
(* every later call returns EndOfStream and leaves the cursor unchanged.   *)
(***************************************************************************)
C6_IdempotentTermination ==
    [][tok.type = "EndOfStream" => (tok'.type = "EndOfStream" /\ pos' = pos)]_vars

C6_Witness ==
    /\ prev.type = "EndOfStream" /\ tok.type = "EndOfStream"
    /\ Len(buf) > 0 /\ from = End(buf)

RECURSIVE HasClosingQuote(_, _, _)
HasClosingQuote(b, p, q) ==
    IF p >= End(b) THEN FALSE
    ELSE IF At(b, p) = CH_BACKSLASH THEN HasClosingQuote(b, p + 2, q)
    ELSE IF At(b, p) # q THEN HasClosingQuote(b, p + 1, q)
    ELSE IF p + 1 < End(b) /\ At(b, p + 1) = q THEN HasClosingQuote(b, p + 2, q)
    ELSE TRUE

C9_UnterminatedQuote ==
    /\ \A q \in QuoteBytes :
          (/\ Called /\ from < End(buf) /\ At(buf, from) = q
           /\ ~HasClosingQuote(buf, from + 1, q))
             => tok = Token(QuoteError(q), from, End(buf))
    /\ prev.type \in QuoteErrors => tok.type = "EndOfStream"

C9_Witness ==
    /\ prev = Token("ErrorBackQuoteIsNotClosed", Begin, End(buf))
    /\ At(buf, End(buf) - 1) = CH_BACKSLASH
    /\ tok.type = "EndOfStream"

(***************************************************************************)
(* C10 (Single-byte errors): `!` not followed by `=` gives                 *)
(* ErrorSingleExclamationMark, `|` not followed by `|` gives               *)
(* ErrorSinglePipeMark, a byte without a case label gives Error; the token *)
(* is exactly that byte, the cursor advances by one, and the next call     *)
(* starts at the following byte.                                           *)
(***************************************************************************)
FollowedBy(b, p, c) == p + 1 < End(b) /\ At(b, p + 1) = c

SingleByteErrors == {"ErrorSingleExclamationMark", "ErrorSinglePipeMark", "Error"}

C10_SingleByteErrors ==
    /\ (Called /\ from < End(buf)) =>
          LET c == At(buf, from)
              one(type) == Returned(Token(type, from, from + 1), from + 1)
          IN  /\ (c = CH_EXCL /\ ~FollowedBy(buf, from, CH_EQ))
                    => one("ErrorSingleExclamationMark")
              /\ (c = CH_PIPE /\ ~FollowedBy(buf, from, CH_PIPE))
                    => one("ErrorSinglePipeMark")
              /\ c \notin DispatchBytes => one("Error")
    /\ prev.type \in SingleByteErrors =>
          /\ prev.end = prev.begin + 1
          /\ from = prev.end
          /\ tok.begin = prev.end
          /\ tok = nextToken(buf, prev.end).tok

C10_Witness ==
    /\ prev.type = "ErrorSinglePipeMark" /\ tok.type = "ErrorSingleExclamationMark"
    /\ pos < End(buf) /\ At(buf, pos) \notin DispatchBytes

(***************************************************************************)
(* C11 (Termination rule): a call made with cursor >= end, the empty       *)
(* buffer included, returns EndOfStream with begin and end both equal to   *)
(* the buffer end.                                                         *)
(***************************************************************************)
C11_EndOfStreamRange ==
    (Called /\ from >= End(buf)) => tok = Token("EndOfStream", End(buf), End(buf))

C11_Witness == Len(buf) = 0 /\ tok.type = "EndOfStream" /\ prev = NoToken

(***************************************************************************)
(* Buffers of numeric literals and of the bytes around a dot: longer, over *)
(* the bytes the digit and the dot cases tell apart.                       *)
(***************************************************************************)
MaxNumberLen == 4

CH_RBRACKET == 93
CH_b == 98
CH_p == 112

NumberBytes ==
    { CH_0, CH_1, CH_x, CH_b, CH_e, CH_p, CH_PLUS, CH_MINUS, CH_DOT, CH_RPAREN,
      CH_RBRACKET, CH_a, CH_UNDERSCORE, CH_QUOTE, CH_SPACE }

NumberBuffers == UNION { [1..n -> NumberBytes] : n \in 0..MaxNumberLen }

NumberInit ==
    /\ buf \in NumberBuffers
    /\ pos = Begin
    /\ from = Begin
    /\ tok = NoToken
    /\ prev = NoToken

NumberSpec == NumberInit /\ [][Next]_vars

(***************************************************************************)
(* C12 (Radix prefix): whenever a call starts on `0` and the next byte of  *)
(* the buffer is `x` or `b`, both bytes belong to the Number token that is *)
(* returned, at every position of the buffer and also when no digit        *)
(* follows the prefix.                                                     *)
(***************************************************************************)
StartsRadixPrefix(b, p) ==
    p + 1 < End(b) /\ At(b, p) = CH_0 /\ At(b, p + 1) \in {CH_x, CH_b}

C12_RadixPrefix ==
    (Called /\ StartsRadixPrefix(buf, from))
        => (tok.type = "Number" /\ tok.begin = from /\ tok.end >= from + 2)

(***************************************************************************)
(* C13 (Exponent): in a Number token an `e` or `p` is consumed only if at  *)
(* least one byte remains after it, and is consumed whenever the literal   *)
(* reaches it and a byte remains; once it is consumed, a `+` or `-` that   *)
(* immediately follows is part of the token, and all the decimal digits    *)
(* that follow are consumed.                                               *)
(***************************************************************************)
ExponentBytes == {CH_e, CH_p}

SignBytes == {CH_PLUS, CH_MINUS}

(* The exponent markers inside the token t: positions after its first byte. *)
ExponentsIn(b, t) == { i \in (t.begin + 1)..(t.end - 1) : At(b, i) \in ExponentBytes }

C13_Exponent ==
    (Called /\ tok.type = "Number") =>
        /\ \A i \in ExponentsIn(buf, tok) :
              /\ i + 1 < End(buf)
              /\ At(buf, i + 1) \in SignBytes => tok.end > i + 1
        /\ (ExponentsIn(buf, tok) = {} /\ tok.end + 1 < End(buf))
              => At(buf, tok.end) \notin ExponentBytes
        /\ (ExponentsIn(buf, tok) # {} /\ tok.end < End(buf))
              => ~isNumericASCII(At(buf, tok.end))

(***************************************************************************)
(* C14 (Dot disambiguation): a call with the cursor on `.` returns Dot of  *)
(* length 1 if and only if cursor > begin and the byte before the cursor   *)
(* is `)`, `]` or an ASCII letter or digit; in every other case it returns *)
(* a Number that starts with the `.`, and a lone `.` at the start of the   *)
(* input is a Number of length 1.                                          *)
(***************************************************************************)
Letters == (97..122) \cup (65..90)

Digits == 48..57

AfterExpression(b, p) ==
    p > Begin /\ At(b, p - 1) \in ({CH_RPAREN, CH_RBRACKET} \cup Letters \cup Digits)

MaxQuoteLen == 6

QuoteSpanBytes == { CH_QUOTE, CH_DQUOTE, CH_BACKQUOTE, CH_BACKSLASH, CH_a }

ItsExample == <<39, 105, 116, 39, 39, 115, 39>>

QuoteBuffers ==
    UNION { [1..n -> QuoteSpanBytes] : n \in 0..MaxQuoteLen } \cup {ItsExample}

QuoteInit ==
    /\ buf \in QuoteBuffers
    /\ pos = Begin
    /\ from = Begin
    /\ tok = NoToken
    /\ prev = NoToken

QuoteSpec == QuoteInit /\ [][Next]_vars

QuoteSuccess(q) == IF q = CH_QUOTE THEN "StringLiteral" ELSE "QuotedIdentifier"

(* The position of the closing q at or after p, reading the span byte by   *)
(* byte: a byte after a backslash and both bytes of a qq pair are passed.  *)
RECURSIVE ClosingQuote(_, _, _)
ClosingQuote(b, p, q) ==
    IF p >= End(b) THEN End(b)
    ELSE IF At(b, p) = CH_BACKSLASH THEN ClosingQuote(b, p + 2, q)
    ELSE IF At(b, p) # q THEN ClosingQuote(b, p + 1, q)
    ELSE IF p + 1 < End(b) /\ At(b, p + 1) = q THEN ClosingQuote(b, p + 2, q)
    ELSE p

ClosedQuoteRule ==
    \A q \in QuoteBytes :
        (/\ Called /\ from < End(buf) /\ At(buf, from) = q
         /\ HasClosingQuote(buf, from + 1, q))
          => LET c == ClosingQuote(buf, from + 1, q) IN
             Returned(Token(QuoteSuccess(q), from, c + 1), c + 1)

ItsExampleLength(n) ==
    (Called /\ prev = NoToken /\ buf = ItsExample) => tok = Token("StringLiteral", 0, n)

(***************************************************************************)
(* C15 (Closed quoted span), as claimed: for each quote byte q the success *)
(* token (StringLiteral for ', QuotedIdentifier for " and `) ends right    *)
(* after the first q past the opening quote that neither follows a         *)
(* backslash nor belongs to a doubled qq; the byte after a backslash is    *)
(* skipped; 'it''s' is one StringLiteral of length 6.                      *)
(***************************************************************************)
C15_ClosedQuoteAsClaimed == ClosedQuoteRule /\ ItsExampleLength(6)

(***************************************************************************)
(* C15 (Closed quoted span), amended: the same rule, and 'it''s' is one    *)
(* StringLiteral of length 7.                                              *)
(***************************************************************************)
C15_ClosedQuote == ClosedQuoteRule /\ ItsExampleLength(7)

C15_Witness ==
    /\ buf = <<CH_BACKQUOTE, CH_BACKSLASH, CH_BACKQUOTE, CH_BACKQUOTE, CH_BACKQUOTE,
               CH_BACKQUOTE>>
    /\ tok = Token("QuotedIdentifier", 0, 6)

(***************************************************************************)
(* Buffers of comments: longer, over the bytes of the comment openers and  *)
(* closers, the newline and two bytes of content.                          *)
(***************************************************************************)
MaxCommentLen == 6

CommentBytes == { CH_SLASH, CH_STAR, CH_MINUS, CH_NL, CH_SPACE, CH_a }

CommentBuffers == UNION { [1..n -> CommentBytes] : n \in 0..MaxCommentLen }

CommentInit ==
    /\ buf \in CommentBuffers
    /\ pos = Begin
    /\ from = Begin
    /\ tok = NoToken
    /\ prev = NoToken

CommentSpec == CommentInit /\ [][Next]_vars

(***************************************************************************)
(* C16 (Closed block comment): a call that starts at slash-star returns a  *)
(* Comment that ends right after the first star-slash pair lying at or     *)
(* after the byte that follows the opener; the star of the opener is not   *)
(* reused (slash-star-slash is not closed) and an inner slash-star is      *)
(* content.                                                                *)
(***************************************************************************)
CloserAt(b, i) == At(b, i) = CH_STAR /\ At(b, i + 1) = CH_SLASH

FirstCloserAfter(b, p) ==
    CHOOSE i \in (p + 2)..(End(b) - 2) :
        CloserAt(b, i) /\ \A j \in (p + 2)..(i - 1) : ~CloserAt(b, j)

C16_ClosedBlockComment ==
    (Called /\ OpensBlockComment(buf, from)) =>
        IF BlockCommentCloserAfter(buf, from)
        THEN LET i == FirstCloserAfter(buf, from) IN
             Returned(Token("Comment", from, i + 2), i + 2)
        ELSE tok.type # "Comment"

C16_Witness ==
    /\ buf = <<CH_SLASH, CH_STAR, CH_SLASH, CH_STAR, CH_STAR, CH_SLASH>>
    /\ tok = Token("Comment", 0, 6)

(***************************************************************************)
(* C17 (Line comment): after `--` or `//` the call returns a Comment that  *)
(* starts at the first byte of the opener and ends at the first newline    *)
(* at or after the position following the opener, or at the buffer end if  *)
(* there is none; the newline is not part of the Comment and the next call *)
(* returns a Whitespace token that starts at it.                           *)
(***************************************************************************)
OpensLineComment(b, p) ==
    /\ p >= Begin /\ p + 1 < End(b)
    /\ \/ At(b, p) = CH_MINUS /\ At(b, p + 1) = CH_MINUS
       \/ At(b, p) = CH_SLASH /\ At(b, p + 1) = CH_SLASH

EndOfLine(b, p) ==
    CHOOSE i \in (p + 2)..End(b) :
        /\ i = End(b) \/ At(b, i) = CH_NL
        /\ \A j \in (p + 2)..(i - 1) : At(b, j) # CH_NL

C18_TwoByteOperators ==
    (Called /\ from < End(buf)) =>
        LET c == At(buf, from)
            n(x) == FollowedBy(buf, from, x)
            one(type) == Returned(Token(type, from, from + 1), from + 1)
            two(type) == Returned(Token(type, from, from + 2), from + 2)
        IN  /\ c = CH_EQ => IF n(CH_EQ) THEN two("Equals") ELSE one("Equals")
            /\ (c = CH_EXCL /\ n(CH_EQ)) => two("NotEquals")
            /\ c = CH_LT => IF n(CH_EQ) THEN two("LessOrEquals")
                            ELSE IF n(CH_GT) THEN two("NotEquals")
                            ELSE one("Less")
            /\ c = CH_GT => IF n(CH_EQ) THEN two("GreaterOrEquals") ELSE one("Greater")
            /\ (c = CH_PIPE /\ n(CH_PIPE)) => two("Concatenation")
            /\ (c = CH_MINUS /\ n(CH_GT)) => two("Arrow")
            /\ (c = CH_MINUS /\ ~n(CH_GT) /\ ~n(CH_MINUS)) => one("Minus")
            /\ (c = CH_SLASH /\ ~n(CH_SLASH) /\ ~n(CH_STAR)) => one("Division")

C18_Witness ==
    /\ buf = <<CH_LT, CH_GT, CH_EQ>>
    /\ prev = Token("NotEquals", 0, 2)
    /\ tok = Token("Equals", 2, 3)

(***************************************************************************)
(* C19 (Maximal runs): a BareWord token never begins directly after a word *)
(* character and never ends directly before one, a Whitespace token never  *)
(* ends directly before an ASCII whitespace byte, and two consecutive      *)
(* tokens are never both BareWord and never both Whitespace.               *)
(***************************************************************************)
WordChars == Letters \cup Digits \cup {CH_UNDERSCORE}

WhitespaceChars == {32, 9, 10, 13, 12, 11}

C19_MaximalRuns ==
    /\ tok.type = "BareWord" =>
          /\ ~(tok.begin > Begin /\ At(buf, tok.begin - 1) \in WordChars)
          /\ ~(tok.end < End(buf) /\ At(buf, tok.end) \in WordChars)
    /\ tok.type = "Whitespace" =>
          ~(tok.end < End(buf) /\ At(buf, tok.end) \in WhitespaceChars)
    /\ ~(prev.type = "BareWord" /\ tok.type = "BareWord")
    /\ ~(prev.type = "Whitespace" /\ tok.type = "Whitespace")

C19_Witness ==
    /\ prev = Token("Whitespace", 0, 2) /\ tok = Token("BareWord", 2, 3)
    /\ At(buf, 0) # At(buf, 1)

(***************************************************************************)
(* The bytes one call inspects.  reads*(b, p) is the set of the positions  *)
(* that the case entered with the cursor at p dereferences (the byte at    *)
(* pos, pos[1], pos[-1]), each under the conditions that guard it in the   *)
(* code.                                                                   *)
(***************************************************************************)
(* while (pos < end && is...ASCII(pos[0])) ++pos; entered at p, left at q. *)
readsRun(b, p, q) == { i \in p..q : i < End(b) }

(* pos < limit && pos[0] == ...: one guarded look at p. *)
readsIfBefore(b, p, limit) == IF p < limit THEN {p} ELSE {}

RECURSIVE readsQuotedLoop(_, _, _)
readsQuotedLoop(b, p, quote) ==
    LET f == find_first_symbols({quote, CH_BACKSLASH}, b, p)
        scanned == readsRun(b, p, f)
    IN  IF f >= End(b) THEN scanned
        ELSE IF At(b, f) = quote
        THEN scanned \cup {f} \cup readsIfBefore(b, f + 1, End(b))
             \cup (IF f + 1 < End(b) /\ At(b, f + 1) = quote
                   THEN readsQuotedLoop(b, f + 2, quote) ELSE {})
        ELSE scanned \cup {f}
             \cup (IF f + 1 >= End(b) THEN {} ELSE readsQuotedLoop(b, f + 2, quote))

(* Mutant of readsWord: the look-behind is not guarded by pos > begin. *)
M_readsWord_noBeginCheck(b, p) ==
    {p - 1}
    \cup (IF p > Begin /\ isWordCharASCII(At(b, p - 1))
          THEN {} ELSE readsRun(b, p + 1, skipWordChars(b, p + 1)))

readsWord(b, p) ==
    (IF p > Begin THEN {p - 1} ELSE {})
    \cup (IF p > Begin /\ isWordCharASCII(At(b, p - 1))
          THEN {} ELSE readsRun(b, p + 1, skipWordChars(b, p + 1)))

readsExponent(b, p, guard) ==
    (IF guard THEN {p} ELSE {})
    \cup (IF guard /\ At(b, p) \in {CH_e, CH_p}
          THEN LET s == p + 1
                   t == IF s < End(b) - 1 /\ At(b, s) \in {CH_MINUS, CH_PLUS}
                        THEN s + 1 ELSE s
               IN  readsIfBefore(b, s, End(b) - 1) \cup readsRun(b, t, skipNumeric(b, t))
          ELSE {})

readsNumber(b, p) ==
    LET radix == p < End(b) - 2 /\ At(b, p) = CH_0
        p1 == IF radix /\ At(b, p + 1) \in {CH_x, CH_b} THEN p + 2 ELSE p
        p2 == skipNumeric(b, p1)
        point == p2 < End(b) /\ At(b, p2) = CH_DOT
        p3 == IF point THEN skipNumeric(b, p2 + 1) ELSE p2
    IN  readsIfBefore(b, p, End(b) - 2)
        \cup (IF radix THEN {p + 1} ELSE {})
        \cup readsRun(b, p1, p2)
        \cup (IF point THEN readsRun(b, p2 + 1, p3) ELSE {})
        \cup readsExponent(b, p3, p3 + 1 < End(b))

readsDot(b, p) ==
    (IF p > Begin THEN {p - 1} ELSE {})
    \cup (IF p > Begin /\ ( At(b, p - 1) = CH_RPAREN \/ At(b, p - 1) = CH_RBRACKET
                            \/ isAlphaNumericASCII(At(b, p - 1)) )
          THEN {}
          ELSE LET p1 == skipNumeric(b, p + 1) IN
               readsRun(b, p + 1, p1) \cup readsExponent(b, p1, p1 < End(b) - 1))

(* while (pos <= end - 2) { if (pos[0] == '*' && pos[1] == '/') ... } *)
RECURSIVE readsMultilineComment(_, _)
readsMultilineComment(b, p) ==
    IF p <= End(b) - 2
    THEN {p} \cup (IF At(b, p) = CH_STAR THEN {p + 1} ELSE {})
         \cup (IF At(b, p) = CH_STAR /\ At(b, p + 1) = CH_SLASH
               THEN {} ELSE readsMultilineComment(b, p + 1))
    ELSE {}

readsCommentUntilEndOfLine(b, p) == readsRun(b, p, find_first_symbols({CH_NL}, b, p))

readsMinus(b, p) ==
    readsIfBefore(b, p + 1, End(b))
    \cup (IF p + 1 < End(b) /\ At(b, p + 1) # CH_GT /\ At(b, p + 1) = CH_MINUS
          THEN readsCommentUntilEndOfLine(b, p + 2) ELSE {})

readsSlash(b, p) ==
    readsIfBefore(b, p + 1, End(b))
    \cup (IF p + 1 < End(b) /\ At(b, p + 1) = CH_SLASH
          THEN readsCommentUntilEndOfLine(b, p + 2)
          ELSE IF p + 1 < End(b) /\ At(b, p + 1) = CH_STAR
          THEN readsMultilineComment(b, p + 2)
          ELSE {})

(* The bytes nextToken() inspects when called with the cursor at p. *)
readsOf(b, p) ==
    IF p >= End(b) THEN {}
    ELSE LET c == At(b, p) IN
    {p} \cup
    CASE isWhitespaceASCII(c) -> readsRun(b, p + 1, skipWhitespace(b, p + 1))
      [] isAlphaASCII(c) \/ c = CH_UNDERSCORE -> readsWord(b, p)
      [] isNumericASCII(c) -> readsNumber(b, p)
      [] c \in {CH_QUOTE, CH_DQUOTE, CH_BACKQUOTE} -> readsQuotedLoop(b, p + 1, c)
      [] c = CH_DOT -> readsDot(b, p)
      [] c = CH_MINUS -> readsMinus(b, p)
      [] c = CH_SLASH -> readsSlash(b, p)
      [] c \in {CH_EQ, CH_EXCL, CH_LT, CH_GT, CH_PIPE} -> readsIfBefore(b, p + 1, End(b))
      [] OTHER -> {}

====
